---- MODULE Spec2Model ----
(***************************************************************************)
(* Model of the pytrader analytics service (services/analytics/src):       *)
(* the indicator engine (indicators.py), the ema_crossover_rsi strategy    *)
(* and its dispatcher (signals.py), the Signal model (models.py) and the   *)
(* signals endpoint with its market-data client (routers/signals.py,       *)
(* clients.py).                                                            *)
(*                                                                         *)
(* Numbers.  The code computes in float64.  The model computes in fixed    *)
(* point: a float v is the integer v * Scale, and every float division is  *)
(* an integer division rounded towards minus infinity.  A missing value    *)
(* (NaN in a pandas Series, None in a result record) is the empty tuple    *)
(* and a present value v is the one-element tuple <<v>>, so that "absent"  *)
(* can never be confused with a number.                                    *)
(* Timestamps are integers; int(row["timestamp"]) reads back the float64  *)
(* of the row, which is the timestamp itself for every epoch-millisecond   *)
(* value (below 2^53).  Timestamps of one candle list are distinct.        *)
(*                                                                         *)
(* Library calls.  indicators.py delegates to pandas and to the ta         *)
(* library; the operators below compute what those calls compute:          *)
(*   EMAIndicator(close, window=p).ema_indicator()                         *)
(*       = close.ewm(span=p, min_periods=p, adjust=False).mean()           *)
(*   RSIIndicator(close, window=p).rsi()                                   *)
(*       = where(emadn == 0, 100, 100 - 100/(1 + emaup/emadn)) with        *)
(*         emaup/emadn = ewm(alpha=1/p, min_periods=p, adjust=False).mean()*)
(*         of the positive / negated negative part of close.diff(1),       *)
(*         the first difference (NaN) counting as 0                        *)
(*   BollingerBands(close, window=p, window_dev=k): rolling mean and       *)
(*         rolling population standard deviation, min_periods=p            *)
(***************************************************************************)
EXTENDS Integers, Sequences, FiniteSets, TLC

VARIABLES
    candles,      \* the candle list handed to the operation, in caller order
    op,           \* the operation that has run: "idle" before any
    names,        \* indicator_names argument of calculate_indicators
    symbol,       \* symbol argument / payload.symbol
    strategy_id,  \* strategy_id argument / payload.strategy_id
    upstream,     \* what the market-data service answers to a fetch
    result        \* outcome of the operation: a return value or a raised error

vars == <<candles, op, names, symbol, strategy_id, upstream, result>>

----------------------------------------------------------------------------
(* Bounds of the model *)

Scale == 1000        \* fixed-point resolution: 1.0 is Scale
Base == 200          \* first close of every generated series, in whole units
MaxTail == 3         \* candles appended after the first MinCandles - 1
T0 == 1000           \* timestamp of the first candle
Step == 60           \* distance of two consecutive timestamps
StdUnit == 10        \* resolution of the deviations in RollingStd

(* Program constants *)

MinCandles == 50     \* signals.py:20
FastPeriod == 20     \* signals.py:26
SlowPeriod == 50     \* signals.py:27
RsiPeriod == 14      \* signals.py:28
Overbought == 70     \* signals.py:58
Oversold == 30       \* signals.py:68
BollingerPeriod == 20  \* indicators.py:43
BollingerDev == 2      \* indicators.py:43
VolumeSmaPeriod == 20  \* indicators.py:53
LongPeriod == 200      \* indicators.py:90

----------------------------------------------------------------------------
(* Optional floats: NaN / None is <<>>, the float v is <<v>> *)

NaN == <<>>
Num(v) == <<v>>
isna(x) == x = NaN
Val(x) == x[1]

\* float comparison: any comparison with NaN is False
Gt(a, b) == ~isna(a) /\ ~isna(b) /\ Val(a) > Val(b)
Lt(a, b) == ~isna(a) /\ ~isna(b) /\ Val(a) < Val(b)
Ge(a, b) == ~isna(a) /\ ~isna(b) /\ Val(a) >= Val(b)
Le(a, b) == ~isna(a) /\ ~isna(b) /\ Val(a) <= Val(b)
\* float subtraction: NaN propagates
Minus(a, b) == IF isna(a) \/ isna(b) THEN NaN ELSE Num(Val(a) - Val(b))

Min(a, b) == IF a <= b THEN a ELSE b

\* a function on 1..n as the tuple of its values, each computed once
AsSeq(f) == f \o <<>>

\* outcomes of a call
Return(v) == [kind |-> "return", value |-> v]
Raise(e, m) == [kind |-> "raise", exc |-> e, msg |-> m]
NoResult == [kind |-> "none"]

----------------------------------------------------------------------------
(* indicators.py *)

RECURSIVE Merge(_, _)
Merge(a, b) ==
    IF a = <<>> THEN b
    ELSE IF b = <<>> THEN a
    ELSE IF a[1].timestamp <= b[1].timestamp
         THEN <<a[1]>> \o Merge(Tail(a), b)
         ELSE <<b[1]>> \o Merge(a, Tail(b))

\* DataFrame.sort_values("timestamp"): rows in ascending timestamp order
RECURSIVE sort_values(_)
sort_values(rows) ==
    IF Len(rows) <= 1 THEN rows
    ELSE LET h == Len(rows) \div 2
         IN Merge(sort_values(SubSeq(rows, 1, h)),
                  sort_values(SubSeq(rows, h + 1, Len(rows))))

\* candles_to_dataframe without the sort_values call: rows in caller order
candles_to_dataframe_unsorted(cs) == cs

\* candles_to_dataframe: the frame is the sequence of its rows; an empty
\* candle list gives the empty frame, which has no columns
candles_to_dataframe(cs) ==
    IF cs = <<>> THEN <<>>
    ELSE sort_values(cs)

Column(df, c) == AsSeq([i \in 1..Len(df) |-> df[i][c]])

\* Series.ewm(adjust=False).mean() before min_periods is applied:
\* y[1] = x[1], y[i] = (wOld * y[i-1] + wNew * x[i]) / den
RECURSIVE EwmAcc(_, _, _, _, _)
EwmAcc(xs, wNew, wOld, den, acc) ==
    IF Len(acc) = Len(xs) THEN acc
    ELSE LET i == Len(acc) + 1
             y == IF i = 1 THEN xs[1]
                  ELSE (wOld * acc[i - 1] + wNew * xs[i]) \div den
         IN EwmAcc(xs, wNew, wOld, den, Append(acc, y))

\* ewm with min_periods=0 (fillna=True): every value is reported
MinPeriods_fillna(ys, p) == AsSeq([i \in 1..Len(ys) |-> Num(ys[i])])

\* min_periods: the first min_periods - 1 values are NaN
MinPeriods(ys, p) == AsSeq([i \in 1..Len(ys) |-> IF i < p THEN NaN ELSE Num(ys[i])])

\* an EMA seeded with the simple mean of the first period closes, counted as
\* the value of position period, and smoothed from there
RECURSIVE SumFirst(_, _)
SumFirst(xs, n) == IF n = 0 THEN 0 ELSE xs[n] + SumFirst(xs, n - 1)

RECURSIVE SmaSeedAcc(_, _, _)
SmaSeedAcc(xs, period, acc) ==
    IF Len(acc) = Len(xs) THEN acc
    ELSE LET i == Len(acc) + 1
             y == IF i < period THEN 0
                  ELSE IF i = period THEN SumFirst(xs, period) \div period
                  ELSE ((period - 1) * acc[i - 1] + 2 * xs[i]) \div (period + 1)
         IN SmaSeedAcc(xs, period, Append(acc, y))

calculate_ema_sma_seed(df, period) ==
    MinPeriods(SmaSeedAcc(Column(df, "close"), period, <<>>), period)

\* calculate_ema: ewm(span=period, min_periods=period, adjust=False).mean(),
\* alpha = 2 / (period + 1)
calculate_ema(df, period) ==
    MinPeriods(EwmAcc(Column(df, "close"), 2, period - 1, period + 1, <<>>), period)

\* close.diff(1) split in gains and losses; the NaN of the first row fails
\* both comparisons and is replaced by 0
UpDirection(xs) ==
    AsSeq([i \in 1..Len(xs) |->
              IF i > 1 /\ xs[i] - xs[i - 1] > 0 THEN xs[i] - xs[i - 1] ELSE 0])
DownDirection(xs) ==
    AsSeq([i \in 1..Len(xs) |->
              IF i > 1 /\ xs[i] - xs[i - 1] < 0 THEN xs[i - 1] - xs[i] ELSE 0])

\* one RSI value from the two smoothed averages
\* 100 - 100 / (1 + emaup / emadn) without the np.where on emadn == 0:
\* x / 0 is inf for x > 0 and 0 / 0 is NaN
RsiValue_NoWhere(emaup, emadn) ==
    IF isna(emadn) \/ isna(emaup) THEN NaN
    ELSE IF Val(emadn) = 0
         THEN IF Val(emaup) = 0 THEN NaN ELSE Num(100 * Scale)
    ELSE LET rs == (Val(emaup) * Scale) \div Val(emadn)
         IN Num(100 * Scale - ((100 * Scale * Scale) \div (Scale + rs)))

RsiValue(emaup, emadn) ==
    IF isna(emadn) \/ isna(emaup) THEN NaN
    ELSE IF Val(emadn) = 0 THEN Num(100 * Scale)
    ELSE LET rs == (Val(emaup) * Scale) \div Val(emadn)
         IN Num(100 * Scale - ((100 * Scale * Scale) \div (Scale + rs)))

\* an RSI that waits for period price deltas: min_periods = period + 1
calculate_rsi_after_period_deltas(df, period) ==
    LET xs == Column(df, "close")
        emaup == MinPeriods(EwmAcc(UpDirection(xs), 1, period - 1, period, <<>>), period + 1)
        emadn == MinPeriods(EwmAcc(DownDirection(xs), 1, period - 1, period, <<>>), period + 1)
    IN AsSeq([i \in 1..Len(xs) |-> RsiValue(emaup[i], emadn[i])])

\* calculate_rsi
calculate_rsi(df, period) ==
    LET xs == Column(df, "close")
        emaup == MinPeriods(EwmAcc(UpDirection(xs), 1, period - 1, period, <<>>), period)
        emadn == MinPeriods(EwmAcc(DownDirection(xs), 1, period - 1, period, <<>>), period)
    IN AsSeq([i \in 1..Len(xs) |-> RsiValue(emaup[i], emadn[i])])

RECURSIVE SumRange(_, _, _)
SumRange(xs, lo, hi) == IF lo > hi THEN 0 ELSE xs[hi] + SumRange(xs, lo, hi - 1)

\* Series.rolling(window, min_periods=window).mean()
RollingMean(xs, window) ==
    AsSeq([i \in 1..Len(xs) |->
              IF i < window THEN NaN
              ELSE Num(SumRange(xs, i - window + 1, i) \div window)])

RECURSIVE SqrtIter(_, _)
SqrtIter(n, r) ==
    LET r2 == (r + n \div r) \div 2
    IN IF r2 >= r THEN r ELSE SqrtIter(n, r2)

\* floor of the square root
Sqrt(n) == IF n = 0 THEN 0 ELSE SqrtIter(n, n)

\* Series.rolling(window, min_periods=window).std(ddof=0); the deviations
\* are taken at a resolution of StdUnit fixed-point steps so that their
\* squares stay within the integers of the model checker
RollingStd(xs, window) ==
    AsSeq([i \in 1..Len(xs) |->
              IF i < window THEN NaN
              ELSE LET mean == SumRange(xs, i - window + 1, i) \div window
                       sq == AsSeq([j \in 1..window |->
                                LET d == (xs[i - window + j] - mean) \div StdUnit
                                IN d * d])
                   IN Num(Sqrt(SumRange(sq, 1, window) \div window) * StdUnit)])

\* calculate_bollinger_bands(df, period=20, std_dev=2)
calculate_bollinger_bands(df) ==
    LET xs == Column(df, "close")
        mavg == RollingMean(xs, BollingerPeriod)
        mstd == RollingStd(xs, BollingerPeriod)
    IN [bb_upper  |-> [i \in 1..Len(xs) |->
                         IF isna(mavg[i]) THEN NaN
                         ELSE Num(Val(mavg[i]) + BollingerDev * Val(mstd[i]))],
        bb_middle |-> mavg,
        bb_lower  |-> [i \in 1..Len(xs) |->
                         IF isna(mavg[i]) THEN NaN
                         ELSE Num(Val(mavg[i]) - BollingerDev * Val(mstd[i]))]]

\* calculate_volume_sma(df, period=20)
calculate_volume_sma(df) == RollingMean(Column(df, "volume"), VolumeSmaPeriod)

\* results[i][field] = float(val) if not pd.isna(val) else None, for every
\* row; an assignment to a key that is already there replaces its value
SetField(results, field, values) ==
    AsSeq([i \in 1..Len(results) |-> (field :> values[i]) @@ results[i]])

\* the if/elif chain with a final else that gives an unimplemented name a
\* field of None values
AddIndicator_placeholder(df, indicator_name, results) ==
    CASE indicator_name = "ema_20" ->
            SetField(results, "ema_20", calculate_ema(df, 20))
      [] indicator_name = "ema_50" ->
            SetField(results, "ema_50", calculate_ema(df, 50))
      [] indicator_name = "ema_200" ->
            SetField(results, "ema_200", calculate_ema(df, 200))
      [] indicator_name = "rsi_14" ->
            SetField(results, "rsi_14", calculate_rsi(df, 14))
      [] indicator_name = "bollinger_bands" ->
            LET bb == calculate_bollinger_bands(df)
            IN SetField(SetField(SetField(results,
                   "bb_upper", bb.bb_upper), "bb_middle", bb.bb_middle),
                   "bb_lower", bb.bb_lower)
      [] indicator_name = "volume_sma" ->
            SetField(results, "volume_sma", calculate_volume_sma(df))
      [] OTHER -> SetField(results, indicator_name, [i \in 1..Len(df) |-> NaN])

\* one round of the loop over indicator_names: the if/elif chain on the name
AddIndicator(df, indicator_name, results) ==
    CASE indicator_name = "ema_20" ->
            SetField(results, "ema_20", calculate_ema(df, 20))
      [] indicator_name = "ema_50" ->
            SetField(results, "ema_50", calculate_ema(df, 50))
      [] indicator_name = "ema_200" ->
            SetField(results, "ema_200", calculate_ema(df, 200))
      [] indicator_name = "rsi_14" ->
            SetField(results, "rsi_14", calculate_rsi(df, 14))
      [] indicator_name = "bollinger_bands" ->
            LET bb == calculate_bollinger_bands(df)
            IN SetField(SetField(SetField(results,
                   "bb_upper", bb.bb_upper), "bb_middle", bb.bb_middle),
                   "bb_lower", bb.bb_lower)
      [] indicator_name = "volume_sma" ->
            SetField(results, "volume_sma", calculate_volume_sma(df))
      [] OTHER -> results

RECURSIVE IndicatorLoop(_, _, _)
IndicatorLoop(df, indicator_names, results) ==
    IF indicator_names = <<>> THEN results
    ELSE IndicatorLoop(df, Tail(indicator_names),
                       AddIndicator(df, Head(indicator_names), results))

\* calculate_indicators without the early return on an empty candle list:
\* the empty frame has no "close" or "volume" column to compute from
calculate_indicators_noguard(cs, indicator_names) ==
    LET df == candles_to_dataframe(cs)
        results == AsSeq([i \in 1..Len(df) |-> ("timestamp" :> df[i].timestamp)])
    IN IF df = <<>> /\ \E k \in 1..Len(indicator_names) :
                          indicator_names[k] \in {"ema_20", "ema_50", "ema_200",
                              "rsi_14", "bollinger_bands", "volume_sma"}
       THEN Raise("KeyError", <<"close">>)
       ELSE Return(IndicatorLoop(df, indicator_names, results))

\* calculate_indicators
calculate_indicators(cs, indicator_names) ==
    IF cs = <<>> THEN Return(<<>>)
    ELSE LET df == candles_to_dataframe(cs)
             results == AsSeq([i \in 1..Len(df) |-> ("timestamp" :> df[i].timestamp)])
         IN Return(IndicatorLoop(df, indicator_names, results))

----------------------------------------------------------------------------
(* models.py *)

SignalAction == {"buy", "sell", "hold"}

\* Signal(...): pydantic validates the fields on construction; confidence
\* is constrained to ge=0.0, le=1.0
Signal(sym, ts, action, confidence, price, sid, metadata) ==
    IF action \in SignalAction /\ confidence >= 0 /\ confidence <= Scale
    THEN Return([symbol |-> sym, timestamp |-> ts, action |-> action,
                 confidence |-> confidence, price |-> price,
                 strategy_id |-> sid, metadata |-> metadata])
    ELSE Raise("ValidationError", <<"confidence">>)

----------------------------------------------------------------------------
(* signals.py *)

\* the classification with the RSI filter of the bullish branch left out
Classify_NoRsiFilter(ema_diff_prev, ema_diff, rsi) ==
    IF Le(ema_diff_prev, Num(0)) /\ Gt(ema_diff, Num(0))
    THEN [action |-> "buy",
          confidence |-> Min(Scale, Scale \div 2
                             + (Overbought * Scale - Val(rsi)) \div 100)]
    ELSE IF Ge(ema_diff_prev, Num(0)) /\ Lt(ema_diff, Num(0))
    THEN IF Gt(rsi, Num(Oversold * Scale))
         THEN [action |-> "sell",
               confidence |-> Min(Scale, Scale \div 2
                                  + (Val(rsi) - Oversold * Scale) \div 100)]
         ELSE [action |-> "hold", confidence |-> (3 * Scale) \div 10]
    ELSE [action |-> "hold", confidence |-> Scale \div 2]

\* the classification with the RSI distance divided by 10 instead of 100
\* and the result not clamped to 1.0
Classify_Unclamped(ema_diff_prev, ema_diff, rsi) ==
    IF Le(ema_diff_prev, Num(0)) /\ Gt(ema_diff, Num(0))
    THEN IF Lt(rsi, Num(Overbought * Scale))
         THEN [action |-> "buy",
               confidence |-> Scale \div 2 + (Overbought * Scale - Val(rsi)) \div 10]
         ELSE [action |-> "hold", confidence |-> (3 * Scale) \div 10]
    ELSE IF Ge(ema_diff_prev, Num(0)) /\ Lt(ema_diff, Num(0))
    THEN IF Gt(rsi, Num(Oversold * Scale))
         THEN [action |-> "sell",
               confidence |-> Scale \div 2 + (Val(rsi) - Oversold * Scale) \div 10]
         ELSE [action |-> "hold", confidence |-> (3 * Scale) \div 10]
    ELSE [action |-> "hold", confidence |-> Scale \div 2]

\* the classification with "or" for "and" in the test of the bearish branch
Classify_BearishOr(ema_diff_prev, ema_diff, rsi) ==
    IF Le(ema_diff_prev, Num(0)) /\ Gt(ema_diff, Num(0))
    THEN IF Lt(rsi, Num(Overbought * Scale))
         THEN [action |-> "buy",
               confidence |-> Min(Scale, Scale \div 2
                                  + (Overbought * Scale - Val(rsi)) \div 100)]
         ELSE [action |-> "hold", confidence |-> (3 * Scale) \div 10]
    ELSE IF Ge(ema_diff_prev, Num(0)) \/ Lt(ema_diff, Num(0))
    THEN IF Gt(rsi, Num(Oversold * Scale))
         THEN [action |-> "sell",
               confidence |-> Min(Scale, Scale \div 2
                                  + (Val(rsi) - Oversold * Scale) \div 100)]
         ELSE [action |-> "hold", confidence |-> (3 * Scale) \div 10]
    ELSE [action |-> "hold", confidence |-> Scale \div 2]

\* the classification of one row: action and confidence
Classify(ema_diff_prev, ema_diff, rsi) ==
    IF Le(ema_diff_prev, Num(0)) /\ Gt(ema_diff, Num(0))
    THEN IF Lt(rsi, Num(Overbought * Scale))
         THEN [action |-> "buy",
               confidence |-> Min(Scale, Scale \div 2
                                  + (Overbought * Scale - Val(rsi)) \div 100)]
         ELSE [action |-> "hold", confidence |-> (3 * Scale) \div 10]
    ELSE IF Ge(ema_diff_prev, Num(0)) /\ Lt(ema_diff, Num(0))
    THEN IF Gt(rsi, Num(Oversold * Scale))
         THEN [action |-> "sell",
               confidence |-> Min(Scale, Scale \div 2
                                  + (Val(rsi) - Oversold * Scale) \div 100)]
         ELSE [action |-> "hold", confidence |-> (3 * Scale) \div 10]
    ELSE [action |-> "hold", confidence |-> Scale \div 2]

\* the Signal with the ema_50 entry of the metadata copied from ema_20
MakeSignal_CopiedEma(row, action, confidence, sym, sid) ==
    Signal(sym, row.timestamp, action, confidence, row.close, sid,
           [ema_20 |-> Val(row.ema_20), ema_50 |-> Val(row.ema_20),
            rsi_14 |-> Val(row.rsi_14)])

\* the Signal built from a row that was classified buy or sell
MakeSignal(row, action, confidence, sym, sid) ==
    Signal(sym, row.timestamp, action, confidence, row.close, sid,
           [ema_20 |-> Val(row.ema_20), ema_50 |-> Val(row.ema_50),
            rsi_14 |-> Val(row.rsi_14)])

\* the frame with the indicator columns, the difference of the two EMAs
\* and that difference shifted by one row
StrategyFrame(df) ==
    LET ema_20 == calculate_ema(df, FastPeriod)
        ema_50 == calculate_ema(df, SlowPeriod)
        rsi_14 == calculate_rsi(df, RsiPeriod)
        ema_diff == AsSeq([i \in 1..Len(df) |-> Minus(ema_20[i], ema_50[i])])
    IN AsSeq([i \in 1..Len(df) |->
          [timestamp |-> df[i].timestamp, close |-> df[i].close,
           ema_20 |-> ema_20[i], ema_50 |-> ema_50[i], rsi_14 |-> rsi_14[i],
           ema_diff |-> ema_diff[i],
           ema_diff_prev |-> IF i = 1 THEN NaN ELSE ema_diff[i - 1]]])

\* for i in range(1, len(df)): row i of the code is row i + 1 here
RECURSIVE SignalLoop(_, _, _, _, _)
SignalLoop(df, sym, sid, i, signals) ==
    IF i > Len(df) THEN Return(signals)
    ELSE LET row == df[i] IN
         IF isna(row.ema_20) \/ isna(row.ema_50) \/ isna(row.rsi_14)
         THEN SignalLoop(df, sym, sid, i + 1, signals)
         ELSE LET c == Classify(row.ema_diff_prev, row.ema_diff, row.rsi_14) IN
              IF c.action # "hold"
              THEN LET s == MakeSignal(row, c.action, c.confidence, sym, sid) IN
                   IF s.kind = "raise" THEN s
                   ELSE SignalLoop(df, sym, sid, i + 1, Append(signals, s.value))
              ELSE SignalLoop(df, sym, sid, i + 1, signals)

\* the strategy treating insufficient data as an error
generate_ema_crossover_rsi_signals_strict(cs, sym, sid) ==
    IF Len(cs) < MinCandles THEN Raise("ValueError", <<"Insufficient data">>)
    ELSE SignalLoop(StrategyFrame(candles_to_dataframe(cs)), sym, sid, 2, <<>>)

generate_ema_crossover_rsi_signals(cs, sym, sid) ==
    IF Len(cs) < MinCandles THEN Return(<<>>)
    ELSE SignalLoop(StrategyFrame(candles_to_dataframe(cs)), sym, sid, 2, <<>>)

\* the dispatcher looking at the data before it looks up the strategy
generate_signals_data_first(cs, sym, sid) ==
    IF cs = <<>> THEN Return(<<>>)
    ELSE IF sid = "ema_crossover_rsi"
    THEN generate_ema_crossover_rsi_signals(cs, sym, sid)
    ELSE Raise("ValueError", <<"Unknown strategy: ", sid>>)

generate_signals(cs, sym, sid) ==
    IF sid = "ema_crossover_rsi"
    THEN generate_ema_crossover_rsi_signals(cs, sym, sid)
    ELSE Raise("ValueError", <<"Unknown strategy: ", sid>>)

----------------------------------------------------------------------------
(* clients.py, routers/signals.py *)

\* the parameters get_candles declares, all without a default
get_candles_params == {"symbol", "interval", "from_ts", "to_ts"}

\* the keyword arguments the endpoint passes to get_candles
endpoint_kwargs == {"provider", "symbol", "interval", "from_ts", "to_ts"}

UpstreamAnswers == {"ok", "http_error", "bad_json", "no_candles_key", "bad_candle"}

\* MarketDataClient.get_candles called with the keyword arguments kwargs
\* while the market-data service answers up (with the candles cs when ok)
get_candles(kwargs, up, cs) ==
    IF kwargs # get_candles_params
    THEN Raise("TypeError", <<"get_candles() got an unexpected keyword argument">>)
    ELSE CASE up = "http_error" -> Raise("HTTPStatusError", <<>>)
           [] up = "bad_json" -> Raise("JSONDecodeError", <<>>)
           [] up = "no_candles_key" -> Raise("KeyError", <<"candles">>)
           [] up = "bad_candle" -> Raise("ValidationError", <<>>)
           [] OTHER -> Return(cs)

\* isinstance(e, ValueError): json.JSONDecodeError and pydantic's
\* ValidationError are subclasses of ValueError
IsValueError(exc) == exc \in {"ValueError", "JSONDecodeError", "ValidationError"}

\* the two except clauses of the endpoint
HandleException(r) ==
    IF IsValueError(r.exc)
    THEN [kind |-> "http", status |-> 400, detail |-> r.msg]
    ELSE [kind |-> "http", status |-> 500, detail |-> r.msg]

generate_signals_endpoint(sym, sid, up, cs) ==
    LET fetched == get_candles(endpoint_kwargs, up, cs) IN
    IF fetched.kind = "raise" THEN HandleException(fetched)
    ELSE IF fetched.value = <<>>
    THEN [kind |-> "http", status |-> 200, signals |-> <<>>]
    ELSE LET r == generate_signals(fetched.value, sym, sid) IN
         IF r.kind = "raise" THEN HandleException(r)
         ELSE [kind |-> "http", status |-> 200, signals |-> r.value]

----------------------------------------------------------------------------
(* Inputs *)

\* (zigzag amplitude, slope) of the generated close series, in whole units
Patterns == {<<0, 0>>, <<2, 0>>, <<6, 0>>, <<0, 1>>}
\* the pattern of the series shorter than the prefix
ShortPattern == <<2, 1>>
\* the patterns of the series about as long as the longest EMA period
LongPatterns == {<<2, 0>>, <<0, 1>>}
\* steps of the closes appended after the generated prefix, in whole units
Deltas == {0 - 30, 0, 30}
Orders == {"asc", "desc", "odd_even"}
Symbols == {"BTC/USDT", "ETH/USDT"}
Strategies == {"ema_crossover_rsi", "unknown_strategy"}
IndicatorName ==
    {"ema_20", "ema_50", "ema_200", "rsi_14", "macd", "bollinger_bands", "volume_sma"}
Implemented == {"ema_20", "ema_50", "ema_200", "rsi_14", "bollinger_bands", "volume_sma"}
NameLists ==
    {<<>>} \cup {<<a>> : a \in IndicatorName \cup {"foo"}}
           \cup {<<"ema_20", "ema_50">>, <<"ema_20", "macd">>, <<"rsi_14", "macd">>,
                 <<"foo", "bollinger_bands">>, <<"ema_20", "ema_20">>}

PrefixLen == MinCandles - 1

PatternCloses(p, n) == [i \in 1..n |-> Base + p[1] * ((i - 1) % 2) + p[2] * (i - 1)]

RECURSIVE WithTail(_, _)
WithTail(closes, tail) ==
    IF tail = <<>> THEN closes
    ELSE WithTail(Append(closes, closes[Len(closes)] + Head(tail)), Tail(tail))

CloseSeries ==
    {PatternCloses(ShortPattern, n) : n \in 0..(PrefixLen - 1)}
    \cup {WithTail(PatternCloses(p, PrefixLen), t) :
             p \in Patterns, t \in UNION {[1..k -> Deltas] : k \in 0..MaxTail}}
    \cup {PatternCloses(p, n) :
             p \in LongPatterns, n \in (LongPeriod - 1)..(LongPeriod + 1)}

\* the candles of a close series in ascending timestamp order
MakeCandles(closes) ==
    [i \in 1..Len(closes) |->
        [timestamp |-> T0 + Step * (i - 1),
         close |-> closes[i] * Scale,
         volume |-> (100 + (i % 3)) * Scale]]

\* the order in which the caller hands the candles over
Reorder(cs, order) ==
    LET n == Len(cs) IN
    CASE order = "desc" -> [i \in 1..n |-> cs[n + 1 - i]]
      [] order = "odd_even" ->
            LET odds == (n + 1) \div 2
            IN [i \in 1..n |-> IF i <= odds THEN cs[2 * i - 1] ELSE cs[2 * (i - odds)]]
      [] OTHER -> cs

----------------------------------------------------------------------------
(* The state machine: a candle list arrives, one operation runs on it *)

Init ==
    /\ candles \in {Reorder(MakeCandles(c), o) : c \in CloseSeries, o \in Orders}
    /\ op = "idle"
    /\ names = <<>>
    /\ symbol = ""
    /\ strategy_id = ""
    /\ upstream = "ok"
    /\ result = NoResult

CalculateIndicators ==
    /\ op = "idle"
    /\ \E ns \in NameLists :
          /\ names' = ns
          /\ result' = calculate_indicators(candles, ns)
    /\ op' = "calculate_indicators"
    /\ UNCHANGED <<candles, symbol, strategy_id, upstream>>

GenerateSignals ==
    /\ op = "idle"
    /\ \E sym \in Symbols, sid \in Strategies :
          /\ symbol' = sym
          /\ strategy_id' = sid
          /\ result' = generate_signals(candles, sym, sid)
    /\ op' = "generate_signals"
    /\ UNCHANGED <<candles, names, upstream>>

GenerateSignalsEndpoint ==
    /\ op = "idle"
    /\ \E sym \in Symbols, sid \in Strategies, up \in UpstreamAnswers :
          /\ symbol' = sym
          /\ strategy_id' = sid
          /\ upstream' = up
          /\ result' = generate_signals_endpoint(sym, sid, up, candles)
    /\ op' = "generate_signals_endpoint"
    /\ UNCHANGED <<candles, names>>

Next == CalculateIndicators \/ GenerateSignals \/ GenerateSignalsEndpoint

Spec == Init /\ [][Next]_vars

----------------------------------------------------------------------------
(* Vocabulary of the properties *)

Registered == "ema_crossover_rsi"

Range(f) == {f[i] : i \in DOMAIN f}

\* generate_signals has run with the registered strategy
StrategyRan == op = "generate_signals" /\ strategy_id = Registered

\* the signals returned, none when the call raised
Emitted == IF result.kind = "return" THEN Range(result.value) ELSE {}

Defined(x) == x # NaN

\* the series the strategy works on, in timestamp order, with its
\* indicator columns and diff = EMA20 - EMA50
Rows ==
    LET series == candles_to_dataframe(candles)
        EMA20 == calculate_ema(series, FastPeriod)
        EMA50 == calculate_ema(series, SlowPeriod)
        RSI == calculate_rsi(series, RsiPeriod)
    IN AsSeq([i \in 1..Len(series) |->
          [timestamp |-> series[i].timestamp, close |-> series[i].close,
           EMA20 |-> EMA20[i], EMA50 |-> EMA50[i], RSI |-> RSI[i],
           diff |-> Minus(EMA20[i], EMA50[i])]])

Bullish(rows, i) == Val(rows[i - 1].diff) <= 0 /\ Val(rows[i].diff) > 0
Bearish(rows, i) == Val(rows[i - 1].diff) >= 0 /\ Val(rows[i].diff) < 0

\* what the strategy is to emit at row i: "buy", "sell" or nothing
Expected(rows, i) ==
    IF i >= 2 /\ Defined(rows[i].EMA20) /\ Defined(rows[i].EMA50)
              /\ Defined(rows[i].RSI) /\ Defined(rows[i - 1].diff)
    THEN IF Bullish(rows, i) /\ Val(rows[i].RSI) < Overbought * Scale THEN "buy"
         ELSE IF Bearish(rows, i) /\ Val(rows[i].RSI) > Oversold * Scale THEN "sell"
         ELSE "none"
    ELSE "none"

\* the positions of the returned list that carry the timestamp ts
SignalsAt(ts) == {k \in 1..Len(result.value) : result.value[k].timestamp = ts}

\* C1: on a series of at least 50 candles a Signal is emitted at row i
\* exactly when the indicators and the previous difference are defined and
\* the row is a bullish crossover with RSI < 70 (buy) or a bearish crossover
\* with RSI > 30 (sell); no other row gives a Signal and no Signal is a hold
C1_SignalIffFilteredCrossover ==
    (StrategyRan /\ Len(candles) >= MinCandles) =>
        LET rows == Rows IN
        /\ result.kind = "return"
        /\ \A i \in 1..Len(rows) :
              IF Expected(rows, i) = "none" THEN SignalsAt(rows[i].timestamp) = {}
              ELSE /\ Cardinality(SignalsAt(rows[i].timestamp)) = 1
                   /\ \A k \in SignalsAt(rows[i].timestamp) :
                         result.value[k].action = Expected(rows, i)
        /\ \A s \in Emitted :
              /\ s.action # "hold"
              /\ \E i \in 1..Len(rows) : rows[i].timestamp = s.timestamp

\* a buy was emitted at a bullish crossover with RSI < 70, and an earlier
\* row of the same run, with all its values defined, gave no Signal
C1_Witness ==
    /\ StrategyRan
    /\ LET rows == Rows IN
       \E i \in 3..Len(rows) :
           /\ Expected(rows, i) = "buy"
           /\ \E s \in Emitted : s.action = "buy" /\ s.timestamp = rows[i].timestamp
           /\ Defined(rows[i - 2].diff)
           /\ Expected(rows, i - 1) = "none"

\* C2: every emitted Signal has a confidence in [0, 1]
C2_ConfidenceInUnitInterval ==
    StrategyRan =>
        /\ result.kind = "return"
        /\ \A s \in Emitted : s.confidence >= 0 /\ s.confidence <= Scale

C2_Witness ==
    /\ StrategyRan
    /\ \E s \in Emitted : s.action = "sell" /\ s.confidence > Scale \div 2
    /\ \E s \in Emitted : s.confidence < Scale

\* C3: with fewer than 50 candles the registered strategy returns the
\* empty sequence and raises nothing, whatever the prices and the order
C3_InsufficientDataIsEmpty ==
    (StrategyRan /\ Len(candles) < MinCandles) => result = Return(<<>>)

C3_Witness ==
    /\ StrategyRan
    /\ Len(candles) = MinCandles - 1
    /\ \E i \in 1..(Len(candles) - 1) : candles[i].timestamp > candles[i + 1].timestamp
    /\ result = Return(<<>>)

\* C4: an unregistered strategy id makes generate_signals raise ValueError
\* with the id in the message, for every candle sequence
C4_UnknownStrategyRaises ==
    (op = "generate_signals" /\ strategy_id # Registered) =>
        /\ result.kind = "raise"
        /\ result.exc = "ValueError"
        /\ strategy_id \in Range(result.msg)

C4_Witness ==
    /\ op = "generate_signals"
    /\ strategy_id = "unknown_strategy"
    /\ candles = <<>>
    /\ result.kind = "raise"

\* C5 as stated: on an empty candle sequence both operations return an
\* empty result, for every list of names and every strategy id
C5_Original ==
    (candles = <<>> /\ op \in {"calculate_indicators", "generate_signals"}) =>
        result = Return(<<>>)

\* C5 amended: on an empty candle sequence calculate_indicators returns the
\* empty frame for every list of names, and generate_signals returns the
\* empty sequence when the strategy id is the registered one
C5_EmptyInputIsEmpty ==
    /\ (candles = <<>> /\ op = "calculate_indicators") => result = Return(<<>>)
    /\ (candles = <<>> /\ StrategyRan) => result = Return(<<>>)

C5_Witness ==
    /\ candles = <<>>
    /\ op = "calculate_indicators"
    /\ names = <<"ema_20", "macd">>
    /\ result = Return(<<>>)

\* C6: the endpoint answers 400 exactly when the strategy id is unknown,
\* and every other failure is answered 500
C6_BadRequestIffUnknownStrategy ==
    op = "generate_signals_endpoint" =>
        /\ (result.status = 400) <=> (strategy_id # Registered)
        /\ (strategy_id = Registered /\ upstream # "ok") => result.status = 500

\* the candles in the order of the timestamps of the returned records
InResultOrder ==
    LET given == Range(candles) IN
    AsSeq([i \in 1..Len(result.value) |->
              CHOOSE c \in given : c.timestamp = result.value[i].timestamp])

\* C7: calculate_indicators returns one record per candle, the records
\* carry the input timestamps in ascending order, and every value is the
\* one computed over the series in timestamp order
C7_OneRecordPerCandleSorted ==
    op = "calculate_indicators" =>
        /\ result.kind = "return"
        /\ Len(result.value) = Len(candles)
        /\ {r.timestamp : r \in Range(result.value)}
               = {c.timestamp : c \in Range(candles)}
        /\ \A i \in 1..(Len(result.value) - 1) :
              result.value[i].timestamp < result.value[i + 1].timestamp
        /\ LET sorted == InResultOrder IN
           result.value =
              IndicatorLoop(sorted, names,
                  [i \in 1..Len(sorted) |-> ("timestamp" :> sorted[i].timestamp)])

C7_Witness ==
    /\ op = "calculate_indicators"
    /\ Len(candles) > MinCandles
    /\ \E i \in 1..(Len(candles) - 1) : candles[i].timestamp > candles[i + 1].timestamp
    /\ names = <<"ema_20", "ema_50">>
    /\ Defined(result.value[Len(candles)].ema_50)

IsImplemented(n) == n \in Implemented

\* the fields a list of names puts in every record
FieldsOf(ns) ==
    {"timestamp"}
    \cup (Range(ns) \cap {"ema_20", "ema_50", "ema_200", "rsi_14", "volume_sma"})
    \cup (IF "bollinger_bands" \in Range(ns)
          THEN {"bb_upper", "bb_middle", "bb_lower"} ELSE {})

\* C8: a name calculate_indicators does not implement is ignored: no
\* error, no field, and the frame is the one of the list without the name
C8_UnknownIndicatorIgnored ==
    op = "calculate_indicators" =>
        /\ (\E n \in Range(names) : ~IsImplemented(n)) =>
              result = calculate_indicators(candles, SelectSeq(names, IsImplemented))
        /\ \A r \in Range(result.value) :
              DOMAIN r = FieldsOf(SelectSeq(names, IsImplemented))

C8_Witness ==
    /\ op = "calculate_indicators"
    /\ names = <<"rsi_14", "macd">>
    /\ Len(candles) >= RsiPeriod
    /\ \E r \in Range(result.value) : Defined(r.rsi_14)

\* C9: every emitted Signal is a snapshot of its row: timestamp and close
\* of the row, the symbol of the call, the strategy id, and a metadata
\* with exactly the three indicator values of the row
C9_SignalIsSnapshotOfRow ==
    StrategyRan =>
        LET rows == Rows IN
        \A s \in Emitted :
            \E i \in 1..Len(rows) :
                /\ s.timestamp = rows[i].timestamp
                /\ s.price = rows[i].close
                /\ s.symbol = symbol
                /\ s.strategy_id = Registered
                /\ DOMAIN s.metadata = {"ema_20", "ema_50", "rsi_14"}
                /\ s.metadata.ema_20 = Val(rows[i].EMA20)
                /\ s.metadata.ema_50 = Val(rows[i].EMA50)
                /\ s.metadata.rsi_14 = Val(rows[i].RSI)

C9_Witness ==
    /\ StrategyRan
    /\ symbol = "ETH/USDT"
    /\ \E i \in 1..(Len(candles) - 1) : candles[i].timestamp > candles[i + 1].timestamp
    /\ \E s \in Emitted : s.metadata.ema_20 # s.metadata.ema_50

\* the closes rise strictly along the timestamps
StrictlyIncreasing ==
    \A a \in Range(candles), b \in Range(candles) :
        a.timestamp < b.timestamp => a.close < b.close

\* C10: on strictly increasing closes the strategy emits no sell, and no
\* row is a bearish crossover
C10_UptrendNeverSells ==
    (StrategyRan /\ StrictlyIncreasing) =>
        LET rows == Rows IN
        /\ result.kind = "return"
        /\ \A s \in Emitted : s.action # "sell"
        /\ \A i \in 2..Len(rows) : Defined(rows[i - 1].diff) => ~Bearish(rows, i)

C10_Witness ==
    /\ StrategyRan
    /\ StrictlyIncreasing
    /\ Len(candles) > MinCandles + 1
    /\ result.kind = "return"
    /\ Defined(Rows[Len(candles) - 1].diff)

\* the number of candles a field needs before it has a value
WarmUp(field) ==
    CASE field = "ema_20" -> 20
      [] field = "ema_50" -> 50
      [] field = "ema_200" -> 200
      [] field \in {"bb_upper", "bb_middle", "bb_lower", "volume_sma"} -> 20

WarmUpFields ==
    {"ema_20", "ema_50", "ema_200", "bb_upper", "bb_middle", "bb_lower", "volume_sma"}

\* C11: a requested EMA(period), period 20, 50 or 200, is absent in every
\* record of index i < period - 1 and a number in every record of index
\* i >= period - 1; the Bollinger fields and volume_sma are absent for
\* i < 19 and numbers for i >= 19; a series shorter than the period has the
\* field absent in every record (index i is position i + 1 here)
C11_WarmUpRule ==
    op = "calculate_indicators" =>
        /\ result.kind = "return"
        /\ \A k \in 1..Len(result.value) :
              /\ FieldsOf(names) \subseteq DOMAIN result.value[k]
              /\ \A f \in DOMAIN result.value[k] \cap WarmUpFields :
                    IF k - 1 < WarmUp(f) - 1
                    THEN result.value[k][f] = NaN
                    ELSE Len(result.value[k][f]) = 1

C11_Witness ==
    /\ op = "calculate_indicators"
    /\ names = <<"ema_200">>
    /\ Len(candles) = LongPeriod + 1
    /\ result.value[LongPeriod - 1].ema_200 = NaN
    /\ Defined(result.value[LongPeriod].ema_200)
    /\ Defined(result.value[LongPeriod + 1].ema_200)

\* no close up to position k is lower than the close before it
NoLossUpTo(closes, k) == \A j \in 2..k : closes[j] >= closes[j - 1]

\* C12: every defined rsi_14 lies in [0, 100]; where the average loss is 0
\* (no close so far fell, a flat series included) and the warm-up is over,
\* rsi_14 is exactly 100 and never absent
C12_RsiBoundedAndHundredWithoutLoss ==
    (op = "calculate_indicators" /\ "rsi_14" \in Range(names)) =>
        LET closes == Column(candles_to_dataframe(candles), "close")
        IN /\ result.kind = "return"
           /\ Len(result.value) = Len(closes)
           /\ \A k \in 1..Len(result.value) :
                 LET rsi == result.value[k].rsi_14
                 IN /\ Defined(rsi) => (Val(rsi) >= 0 /\ Val(rsi) <= 100 * Scale)
                    /\ (k >= RsiPeriod /\ NoLossUpTo(closes, k)) =>
                           rsi = Num(100 * Scale)

C12_Witness ==
    /\ op = "calculate_indicators"
    /\ names = <<"rsi_14">>
    /\ Len(candles) >= MinCandles
    /\ \A k \in 1..Len(candles) : candles[k].close = candles[1].close
    /\ result.value[Len(candles)].rsi_14 = Num(100 * Scale)

EmaFields == {"ema_20", "ema_50", "ema_200"}

\* one smoothing step with alpha = 2 / (period + 1):
\* close * alpha + previous * (1 - alpha)
Smooth(close, previous, period) ==
    (2 * close + (period - 1) * previous) \div (period + 1)

\* C13 as stated: the first defined EMA(period), ema[period-1], is the
\* arithmetic mean of close[0..period-1], and every later value is
\* close[i]*alpha + ema[i-1]*(1-alpha)
C13_Original ==
    op = "calculate_indicators" =>
        LET closes == Column(candles_to_dataframe(candles), "close")
        IN \A f \in EmaFields \cap Range(names) :
              LET p == WarmUp(f)
              IN \A k \in p..Len(closes) :
                    Val(result.value[k][f]) =
                        IF k = p THEN SumRange(closes, 1, p) \div p
                        ELSE Smooth(closes[k], Val(result.value[k - 1][f]), p)

\* C13: EMA(period) is the smoothing ema[0] = close[0],
\* ema[i] = close[i]*alpha + ema[i-1]*(1-alpha) for every i >= 1 with
\* alpha = 2/(period+1), reported from index period-1 on: the first defined
\* value is that recursion unrolled from close[0], and every later value
\* follows from the one before it
C13_EmaSmoothedFromFirstClose ==
    op = "calculate_indicators" =>
        LET closes == Column(candles_to_dataframe(candles), "close")
        IN \A f \in EmaFields \cap Range(names) :
              LET p == WarmUp(f)
                  e[i \in 1..p] == IF i = 1 THEN closes[1]
                                   ELSE Smooth(closes[i], e[i - 1], p)
              IN \A k \in p..Len(closes) :
                    /\ Defined(result.value[k][f])
                    /\ Val(result.value[k][f]) =
                          IF k = p THEN e[p]
                          ELSE Smooth(closes[k], Val(result.value[k - 1][f]), p)

C13_Witness ==
    /\ op = "calculate_indicators"
    /\ names = <<"ema_20">>
    /\ Len(candles) > FastPeriod
    /\ LET closes == Column(candles_to_dataframe(candles), "close")
       IN /\ Defined(result.value[FastPeriod].ema_20)
          /\ Val(result.value[FastPeriod].ema_20)
                 # SumRange(closes, 1, FastPeriod) \div FastPeriod
          /\ Val(result.value[FastPeriod + 1].ema_20) =
                 Smooth(closes[FastPeriod + 1],
                        Val(result.value[FastPeriod].ema_20), FastPeriod)

\* C14 as stated: rsi_14 is absent for the indices 0 through 13 and the
\* first defined value is at index 14 (index i is position i + 1 here)
C14_Original ==
    (op = "calculate_indicators" /\ "rsi_14" \in Range(names)) =>
        \A k \in 1..Len(result.value) :
            IF k - 1 <= 13
            THEN result.value[k].rsi_14 = NaN
            ELSE Defined(result.value[k].rsi_14)

\* C14: rsi_14 is absent for the indices 0 through 12 and defined from
\* index 13 on: the undefined delta of index 0 counts as a zero delta, so
\* index 13 is the first with 14 observations
C14_RsiDefinedFromIndexThirteen ==
    (op = "calculate_indicators" /\ "rsi_14" \in Range(names)) =>
        /\ result.kind = "return"
        /\ Len(result.value) = Len(candles)
        /\ \A k \in 1..Len(result.value) :
              IF k - 1 < RsiPeriod - 1
              THEN result.value[k].rsi_14 = NaN
              ELSE Defined(result.value[k].rsi_14)

C14_Witness ==
    /\ op = "calculate_indicators"
    /\ "rsi_14" \in Range(names)
    /\ Len(candles) = RsiPeriod
    /\ result.value[RsiPeriod - 1].rsi_14 = NaN
    /\ Defined(result.value[RsiPeriod].rsi_14)

====
